---- MODULE Spec2Model ----
(***************************************************************************)
(* Model of the fetch-and-persist pipeline of src/src/Fetcher.ts.          *)
(*                                                                         *)
(* Every invocation of Fetcher.html / json / txt / markdown is a small     *)
(* process that is suspended at the four awaits of _fetchAndSave           *)
(* (fs.mkdir, fetch, response.text()/json(), fs.writeFile).  An action is  *)
(* the resumption of one await together with all the synchronous code that *)
(* runs up to the next await or up to the return of the public method.     *)
(*                                                                         *)
(* Strings that the code builds with template literals are sequences of    *)
(* string pieces, so "is exactly" is equality of sequences and "contains"  *)
(* is membership of a piece.                                               *)
(***************************************************************************)
EXTENDS Integers, Sequences, FiniteSets, TLC

VARIABLES pc, req, locals, result, steps, sent, rejected, responses,
          dirExists, files, gen, wire, conf, page, video

vars == <<pc, req, locals, result, steps, sent, rejected, responses,
          dirExists, files, gen, wire, conf, page, video>>

\* the state of the invocations and of the download directory
fetching == <<pc, req, locals, result, steps, sent, rejected, responses,
              dirExists, files>>

\* the state of the functions that are also studied on their own
apart == <<gen, wire, conf, page, video>>

(***************************************************************************)
(* Bounds                                                                  *)
(***************************************************************************)
\* crypto.randomBytes(4) has 2^32 outcomes; the model draws from 1..MaxRandom
MaxRandom == 2

\* the concurrent invocations of the public methods
Invocations == {"inv1", "inv2"}

(***************************************************************************)
(* Inputs                                                                  *)
(***************************************************************************)
\* the four public methods; each passes the outputFormat of the same name
Ops == {"html", "json", "txt", "markdown"}

\* the characters of a string, one after the other
RECURSIVE Join(_)
Join(chars) == IF chars = <<>> THEN "" ELSE chars[1] \o Join(Tail(chars))

\* n copies of a character
RECURSIVE Repeat(_, _)
Repeat(c, n) == IF n = 0 THEN <<>> ELSE <<c>> \o Repeat(c, n - 1)

\* absolute urls as the caller writes them, character by character: scheme,
\* host and path (no dot segments, backslashes, query or fragment)
Url(scheme, host, path) == [scheme |-> scheme, host |-> host, path |-> path]

ExampleCom == <<"e", "x", "a", "m", "p", "l", "e", ".", "c", "o", "m">>

AbsoluteUrls ==
    { Url("https", ExampleCom, <<>>),
      Url("https", ExampleCom, <<"/">>),
      Url("https", ExampleCom, <<"/", "p", "a", "t", "h", "/", "t", "o", "/", "p", "a", "g", "e">>),
      Url("https", ExampleCom, <<"/", "d", "o", "c", "s", "/", "/", "g", "u", "i", "d", "e", "/">>),
      Url("https", ExampleCom,
          <<"/", "f", "i", "l", "e", " ", "w", "i", "t", "h", " ", "s", "p", "a", "c", "e", "s", " ", "&", " ", "s", "p", "e", "c", "i", "a", "l", ":", " ", "c", "h", "a", "r", "s", "!">>),
      Url("https", ExampleCom, <<"/", "a", " ", "b">>),
      Url("https", ExampleCom, <<"/", "a", "<", "b", ">">>),
      Url("https", ExampleCom, <<"/">> \o Repeat("x", 50)),
      Url("https", ExampleCom, <<"/">> \o Repeat("y", 51)),
      Url("https", ExampleCom, <<"/">> \o Repeat("z", 48) \o <<" ", "q", "!">>),
      Url("https", <<"s", "u", "b", ".", "e", "x", "a", "m", "p", "l", "e", "-", "s", "i", "t", "e", ".", "o", "r", "g">>, <<"/", "i", "n", "d", "e", "x", ".", "h", "t", "m", "l">>),
      Url("http", <<"1", "9", "2", ".", "1", "6", "8", ".", "1", ".", "1">>, <<"/", "a", "d", "m", "i", "n">>) }

\* the url string
Href(u) == u.scheme \o "://" \o Join(u.host) \o Join(u.path)

\* request urls: a public named host, a private host inside a valid URL,
\* a string that is no URL at all, and a bare private IPv4 literal
URLs == {"https://example.com", "http://192.168.1.1/admin",
         "not-a-valid-url", "10.0.0.1"}

\* the url strings that parse
ValidUrls == {Href(u) : u \in AbsoluteUrls}

\* WHATWG URL parsing as done by fetch(url) and by new URL(url)
IsValidUrl(url) == url \in ValidUrls

\* the path percent-encode set of the URL parser, on the characters used
PercentEncode(c) ==
    CASE c = " " -> <<"%", "2", "0">>
      [] c = "<" -> <<"%", "3", "C">>
      [] c = ">" -> <<"%", "3", "E">>
      [] OTHER -> <<c>>

RECURSIVE PercentEncodePath(_)
PercentEncodePath(path) ==
    IF path = <<>> THEN <<>>
    ELSE PercentEncode(path[1]) \o PercentEncodePath(Tail(path))

\* hostname and pathname of each url that parses
UrlObjects ==
    [url \in ValidUrls |->
        LET u == CHOOSE v \in AbsoluteUrls : Href(v) = url
        IN [hostname |-> u.host,
            pathname |-> IF u.path = <<>> THEN <<"/">>
                         ELSE PercentEncodePath(u.path)]]

\* new URL(url)
NewURL(url) == UrlObjects[url]

\* the instants the clock is read at
Instant(y, mo, d, h, mi, s, ms) ==
    [year |-> y, month |-> mo, day |-> d, hour |-> h, minute |-> mi,
     second |-> s, ms |-> ms]

Instants == { Instant(2023, 10, 27, 10, 30, 0, 0),
              Instant(1999, 12, 31, 23, 59, 59, 999),
              Instant(2026, 1, 2, 3, 4, 5, 67) }

\* the outcomes of crypto.randomBytes(4) the file name generator is tried on
ByteStrings == { <<161, 178, 195, 212>>, <<0, 0, 0, 1>>, <<255, 10, 0, 16>> }

\* the module-level constant imported from ./config.js (an absolute path)
downloadDir == "/home/user/.downloaded_files"

\* the instant new Date() returns while the modelled invocations run
Now == Instant(2023, 10, 27, 10, 30, 0, 0)

\* response bodies delivered by the endpoint, cut into the tokens a JSON
\* parser reads: an HTML page, an object with a decimal literal, an escaped
\* key, whitespace and nesting, and an array with a number literal beyond the
\* range of a double
HtmlBody ==
    <<"<p>", " ", "Hello", "\n", " ", "World", "</p>", "<script>", "x", "=", "1",
      "</script>", "\t">>

Bodies ==
    { HtmlBody,
      <<"{", "\"key\"", ":", "\"value\"", ",", " ", "\"\\u0061\"", ":",
        "[", "1.0", ",", "{", "\"b\"", ":", "null", "}", ",", "[", "]", ",",
        "true", "]", "}">>,
      <<"[", "1e400", "]">> }

\* HTTP status codes of the final response
Statuses == {200, 304, 404}

\* reasons fs.mkdir rejects with
MkdirReasons == {"EACCES: permission denied, mkdir"}

\* messages fetch rejects with after the request was issued
NetworkReasons == {"fetch failed"}

\* messages fs.writeFile rejects with
WriteReasons == {"ENOSPC: no space left on device, write"}

(***************************************************************************)
(* Thrown values                                                           *)
(***************************************************************************)
\* an Error object with the given message
Err(message) == [instanceofError |-> TRUE, message |-> message]

\* a rejection value that is not an Error
NonError == [instanceofError |-> FALSE, message |-> <<>>]

(***************************************************************************)
(* Collaborators and pure helpers                                          *)
(***************************************************************************)
\* private-ip's default export, applied to the string it is handed: "true"
\* for a private address literal, "undefined" for a string that is not an
\* IP address literal (every string with a scheme, a path or a name in it)
isIpPrivate(arg) == IF arg = "10.0.0.1" THEN "true" ELSE "undefined"

\* a guard whose verdict is never acted on
Truthy_Never(v) == FALSE

\* JavaScript truthiness of the guard's return value in if (...)
Truthy(v) == v = "true"

\* a fetch call that is repeated once
RequestsIssued_Retry(url) == IF IsValidUrl(url) THEN 2 ELSE 0

\* the HTTP requests the single fetch(url) call of _fetchAndSave puts on
\* the wire: none when the url does not parse
RequestsIssued(url) == IF IsValidUrl(url) THEN 1 ELSE 0

\* response.ok taken to hold for every status below 500
ResponseOk_Below500(status) == status \in 200..499

\* response.ok
ResponseOk(status) == status \in 200..299

\* the tokens of JSON texts
Whitespace == {" ", "\n", "\t"}

NumberLiterals == {"0", "1", "1.0", "-0", "0.5", "1e400"}

StringLiterals == {"\"key\"", "\"value\"", "\"a\"", "\"b\"", "\"\\u0061\""}

JsonTokens ==
    {"{", "}", "[", "]", ":", ",", "null", "true", "false"}
        \cup Whitespace \cup NumberLiterals \cup StringLiterals

\* does response.json() parse the body (the bodies that are not JSON hold a
\* token no JSON text holds)
IsJson(body) == \A k \in DOMAIN body : body[k] \in JsonTokens

\* JavaScript values
JNull == [type |-> "null"]

JBoolean(b) == [type |-> "boolean", bool |-> b]

JNumber(double) == [type |-> "number", double |-> double]

JString(chars) == [type |-> "string", chars |-> chars]

JArray(items) == [type |-> "array", items |-> items]

JObject(members) == [type |-> "object", members |-> members]

\* the double a number literal denotes, by its shortest decimal form
ToDouble(literal) ==
    CASE literal = "0" -> "0"
      [] literal = "1" -> "1"
      [] literal = "1.0" -> "1"
      [] literal = "-0" -> "-0"
      [] literal = "0.5" -> "0.5"
      [] literal = "1e400" -> "Infinity"

\* the characters a string literal denotes
Unquote(literal) ==
    CASE literal = "\"key\"" -> "key"
      [] literal = "\"value\"" -> "value"
      [] literal = "\"a\"" -> "a"
      [] literal = "\"b\"" -> "b"
      [] literal = "\"\\u0061\"" -> "a"

\* the value of a token that is a value on its own
Scalar(token) ==
    CASE token = "null" -> JNull
      [] token = "true" -> JBoolean(TRUE)
      [] token = "false" -> JBoolean(FALSE)
      [] token \in NumberLiterals -> JNumber(ToDouble(token))
      [] token \in StringLiterals -> JString(Unquote(token))

\* the tokens after the leading whitespace
RECURSIVE SkipWhitespace(_)
SkipWhitespace(tokens) ==
    IF tokens # <<>> /\ tokens[1] \in Whitespace
    THEN SkipWhitespace(Tail(tokens)) ELSE tokens

\* define the property key: a key already there keeps its place
Put(members, key, value) ==
    IF \E k \in DOMAIN members : members[k].key = key
    THEN [k \in DOMAIN members |->
             IF members[k].key = key THEN [key |-> key, value |-> value]
             ELSE members[k]]
    ELSE Append(members, [key |-> key, value |-> value])

RECURSIVE ParseValue(_)
RECURSIVE ParseElements(_, _)
RECURSIVE ParseMembers(_, _)

\* the elements of an array up to its closing bracket
ParseElements(tokens, items) ==
    LET element == ParseValue(tokens)
        after == SkipWhitespace(element.rest)
    IN IF after[1] = ","
       THEN ParseElements(Tail(after), Append(items, element.value))
       ELSE [value |-> JArray(Append(items, element.value)),
             rest |-> Tail(after)]

\* the members of an object up to its closing brace
ParseMembers(tokens, members) ==
    LET atKey == SkipWhitespace(tokens)
        atColon == SkipWhitespace(Tail(atKey))
        member == ParseValue(Tail(atColon))
        after == SkipWhitespace(member.rest)
        defined == Put(members, Unquote(atKey[1]), member.value)
    IN IF after[1] = ","
       THEN ParseMembers(Tail(after), defined)
       ELSE [value |-> JObject(defined), rest |-> Tail(after)]

\* one JSON value and the tokens left after it
ParseValue(tokens) ==
    LET at == SkipWhitespace(tokens)
        inside == SkipWhitespace(Tail(at))
    IN CASE at[1] = "[" ->
               IF inside[1] = "]"
               THEN [value |-> JArray(<<>>), rest |-> Tail(inside)]
               ELSE ParseElements(inside, <<>>)
         [] at[1] = "{" ->
               IF inside[1] = "}"
               THEN [value |-> JObject(<<>>), rest |-> Tail(inside)]
               ELSE ParseMembers(inside, <<>>)
         [] OTHER -> [value |-> Scalar(at[1]), rest |-> Tail(at)]

\* JSON.parse / response.json() of a JSON text
JsonParse(tokens) == ParseValue(tokens).value

\* a line break followed by the indentation of the nesting depth
Newline(depth) == <<"\n">> \o Repeat(" ", 2 * depth)

\* a serialization of numbers that writes what is not finite by its name
NumberToJson_Named(double) == <<double>>

\* serialization of a number: what is not finite becomes null, and the sign
\* of zero is not written
NumberToJson(double) ==
    IF double \in {"Infinity", "-Infinity", "NaN"} THEN <<"null">>
    ELSE IF double = "-0" THEN <<"0">>
    ELSE <<double>>

\* QuoteJSONString for characters that need no escape
Quote(chars) == "\"" \o chars \o "\""

RECURSIVE Serialize(_, _)
RECURSIVE SerializeElements(_, _)
RECURSIVE SerializeMembers(_, _)

SerializeElements(items, depth) ==
    Newline(depth) \o Serialize(items[1], depth)
        \o (IF Len(items) = 1 THEN <<>>
            ELSE <<",">> \o SerializeElements(Tail(items), depth))

SerializeMembers(members, depth) ==
    Newline(depth) \o <<Quote(members[1].key), ":", " ">>
        \o Serialize(members[1].value, depth)
        \o (IF Len(members) = 1 THEN <<>>
            ELSE <<",">> \o SerializeMembers(Tail(members), depth))

\* SerializeJSONProperty with a gap of two spaces, at a nesting depth
Serialize(value, depth) ==
    CASE value.type = "null" -> <<"null">>
      [] value.type = "boolean" -> <<IF value.bool THEN "true" ELSE "false">>
      [] value.type = "number" -> NumberToJson(value.double)
      [] value.type = "string" -> <<Quote(value.chars)>>
      [] value.type = "array" ->
            IF value.items = <<>> THEN <<"[", "]">>
            ELSE <<"[">> \o SerializeElements(value.items, depth + 1)
                     \o Newline(depth) \o <<"]">>
      [] value.type = "object" ->
            IF value.members = <<>> THEN <<"{", "}">>
            ELSE <<"{">> \o SerializeMembers(value.members, depth + 1)
                     \o Newline(depth) \o <<"}">>

\* JSON.stringify(value, null, 2)
JsonStringify(value) == Serialize(value, 0)

\* an options argument without the recursive flag
MkdirOptions_NonRecursive == [recursive |-> FALSE]

\* the options argument ensureDownloadDirExists passes to fs.mkdir
MkdirOptions == [recursive |-> TRUE]

\* the reasons fs.mkdir can reject with: with the recursive flag an
\* existing directory is not an error, without it the call fails with EEXIST
MkdirFailures(exists, options) ==
    IF exists
    THEN IF options.recursive THEN {}
         ELSE {"EEXIST: file already exists, mkdir"}
    ELSE MkdirReasons

\* a catch of ensureDownloadDirExists that rethrows what it caught
EnsureDirError_Passthrough(error) == error

\* the catch of ensureDownloadDirExists
EnsureDirError(error) ==
    Err(<<"Failed to create download directory: ">> \o error.message)

\* a blocked-attempt Error whose template leaves the url out
BlockedError_NoUrl(url) ==
    Err(<<"Fetcher blocked an attempt to fetch a private IP ",
          ". This is to prevent a security vulnerability where a local MCP could fetch privileged local IPs and exfiltrate data.">>)

\* the Error thrown when the guard blocks
BlockedError(url) ==
    Err(<<"Fetcher blocked an attempt to fetch a private IP ", url,
          ". This is to prevent a security vulnerability where a local MCP could fetch privileged local IPs and exfiltrate data.">>)

\* the Error thrown for a response that is not ok
HttpError(status) == Err(<<"HTTP error: ", ToString(status)>>)

\* the TypeError fetch rejects with when its argument does not parse
ParseError(url) == Err(<<"Failed to parse URL from ", url>>)

\* a catch of _fetchAndSave whose template leaves the url out
WrapError_NoUrl(url, error) ==
    IF error.instanceofError
    THEN Err(<<"Failed to fetch: ">> \o error.message)
    ELSE Err(<<"Failed to fetch: Unknown error">>)

\* the catch of _fetchAndSave
WrapError(url, error) ==
    IF error.instanceofError
    THEN Err(<<"Failed to fetch ", url, ": ">> \o error.message)
    ELSE Err(<<"Failed to fetch ", url, ": Unknown error">>)

\* contentType of each case of the switch
ContentTypeOf(outputFormat) ==
    CASE outputFormat = "html" -> "text/html"
      [] outputFormat = "json" -> "application/json"
      [] outputFormat = "txt" -> "text/plain"
      [] outputFormat = "markdown" -> "text/markdown"

\* a switch whose markdown case uses the format name as the extension
ExtensionOf_FormatName(outputFormat) == outputFormat

\* fileExtension of each case of the switch
ExtensionOf(outputFormat) ==
    CASE outputFormat = "html" -> "html"
      [] outputFormat = "json" -> "json"
      [] outputFormat = "txt" -> "txt"
      [] outputFormat = "markdown" -> "md"

\* the tags that occur in the content of a body element
RawTextOpeners == {"<script>", "<style>"}

HtmlTags == RawTextOpeners \cup {"</script>", "</style>", "<p>", "</p>"}

\* the end tag that closes a raw text element
CloserOf(opener) == IF opener = "<script>" THEN "</script>" ELSE "</style>"

\* document.body.textContent after the script and style elements were
\* removed: the text outside them, in document order; the content of a
\* script or style element runs to its end tag or to the end of the input
RECURSIVE TextContent(_, _)
TextContent(html, inside) ==
    IF html = <<>> THEN <<>>
    ELSE IF inside # ""
    THEN TextContent(Tail(html), IF html[1] = CloserOf(inside) THEN "" ELSE inside)
    ELSE IF html[1] \in RawTextOpeners THEN TextContent(Tail(html), html[1])
    ELSE IF html[1] \in HtmlTags THEN TextContent(Tail(html), "")
    ELSE <<html[1]>> \o TextContent(Tail(html), "")

\* a replacement of each whitespace character on its own
RECURSIVE Collapse_Each(_)
Collapse_Each(text) ==
    IF text = <<>> THEN <<>>
    ELSE <<IF text[1] \in Whitespace THEN " " ELSE text[1]>>
             \o Collapse_Each(Tail(text))

\* replace(/\s+/g, " ")
RECURSIVE Collapse(_)
Collapse(text) ==
    IF text = <<>> THEN <<>>
    ELSE IF text[1] \notin Whitespace THEN <<text[1]>> \o Collapse(Tail(text))
    ELSE <<" ">> \o Collapse(SkipWhitespace(text))

\* String.prototype.trim
Trim(text) ==
    LET kept == {k \in DOMAIN text : text[k] \notin Whitespace}
    IN IF kept = {} THEN <<>>
       ELSE SubSeq(text, CHOOSE k \in kept : \A m \in kept : k <= m,
                         CHOOSE k \in kept : \A m \in kept : m <= k)

\* content of each case of the switch; the turndown conversion is kept as a
\* tag before the body it is applied to
Transform(outputFormat, body) ==
    CASE outputFormat = "html" -> body
      [] outputFormat = "json" -> JsonStringify(JsonParse(body))
      [] outputFormat = "txt" -> Trim(Collapse(TextContent(body, "")))
      [] outputFormat = "markdown" -> <<"turndown">> \o body

\* n written with w decimal digits
RECURSIVE Pad(_, _)
Pad(n, w) == IF w = 0 THEN <<>> ELSE Pad(n \div 10, w - 1) \o <<ToString(n % 10)>>

\* Date.prototype.toISOString for the years 0000..9999
ToISOString(t) ==
    Pad(t.year, 4) \o <<"-">> \o Pad(t.month, 2) \o <<"-">> \o Pad(t.day, 2)
        \o <<"T">> \o Pad(t.hour, 2) \o <<":">> \o Pad(t.minute, 2) \o <<":">>
        \o Pad(t.second, 2) \o <<".">> \o Pad(t.ms, 3) \o <<"Z">>

\* String.prototype.slice(from, to) with 0 <= from <= to
Slice(chars, from, to) ==
    SubSeq(chars, from + 1, IF to < Len(chars) THEN to ELSE Len(chars))

\* a timestamp cut after 14 characters
FormatTimestamp_Slice14(iso) ==
    Slice(SelectSeq(iso, LAMBDA c : c \notin {"-", ":", "."}), 0, 14) \o <<"Z">>

\* toISOString().replace(/[-:.]/g, "").slice(0, 15) + "Z"
FormatTimestamp(iso) ==
    Slice(SelectSeq(iso, LAMBDA c : c \notin {"-", ":", "."}), 0, 15) \o <<"Z">>

HexDigits == <<"0", "1", "2", "3", "4", "5", "6", "7", "8", "9",
               "a", "b", "c", "d", "e", "f">>

\* Buffer.toString("hex"): two digits per byte
RECURSIVE ToHex(_)
ToHex(bytes) ==
    IF bytes = <<>> THEN <<>>
    ELSE <<HexDigits[(bytes[1] \div 16) + 1], HexDigits[(bytes[1] % 16) + 1]>>
             \o ToHex(Tail(bytes))

\* String.prototype.split("/")
RECURSIVE Split(_, _)
Split(chars, sep) ==
    IF \A k \in DOMAIN chars : chars[k] # sep THEN <<chars>>
    ELSE LET at == CHOOSE k \in DOMAIN chars :
                       chars[k] = sep /\ \A m \in 1..(k - 1) : chars[m] # sep
         IN <<SubSeq(chars, 1, at - 1)>>
                \o Split(SubSeq(chars, at + 1, Len(chars)), sep)

\* a pathParts that keeps the empty pieces of the split
PathParts_NoFilter(pathname) == Split(pathname, "/")

\* urlObj.pathname.split("/").filter(Boolean)
PathParts(pathname) == SelectSeq(Split(pathname, "/"), LAMBDA part : part # <<>>)

\* the characters of [a-zA-Z0-9_\-]
SafeChars ==
    {"a", "b", "c", "d", "e", "f", "g", "h", "i", "j", "k", "l", "m",
     "n", "o", "p", "q", "r", "s", "t", "u", "v", "w", "x", "y", "z",
     "A", "B", "C", "D", "E", "F", "G", "H", "I", "J", "K", "L", "M",
     "N", "O", "P", "Q", "R", "S", "T", "U", "V", "W", "X", "Y", "Z",
     "0", "1", "2", "3", "4", "5", "6", "7", "8", "9", "_", "-"}

\* a sanitization that drops the characters it should replace
Sanitize_Drop(chars) == SelectSeq(chars, LAMBDA c : c \in SafeChars)

\* baseName.replace(/[^a-zA-Z0-9_\-]/g, "_")
Sanitize(chars) ==
    [k \in DOMAIN chars |-> IF chars[k] \in SafeChars THEN chars[k] ELSE "_"]

\* the length the base name is cut to
MaxBaseNameLength == 50

\* a base name that is cut but not sanitized
BaseNameChars_Unsanitized(url) ==
    LET urlObj == NewURL(url)
        pathParts == PathParts(urlObj.pathname)
    IN Slice(IF Len(pathParts) > 0 THEN pathParts[Len(pathParts)]
             ELSE urlObj.hostname, 0, MaxBaseNameLength)

\* the characters of the base name of the file generated for url
BaseNameChars(url) ==
    LET urlObj == NewURL(url)
        pathParts == PathParts(urlObj.pathname)
        baseName == IF Len(pathParts) > 0 THEN pathParts[Len(pathParts)]
                    ELSE urlObj.hostname
    IN Slice(Sanitize(baseName), 0, MaxBaseNameLength)

\* the base name of each url that parses
BaseNames == [url \in ValidUrls |-> Join(BaseNameChars(url))]

\* the sanitized last path segment, or the sanitized hostname
BaseName(url) == BaseNames[url]

\* a generateUniqueFilename that numbers the files by counting the shared
\* download directory instead of using the random suffix
generateUniqueFilename_Counter(url, extension, now, randomBytes) ==
    <<Join(FormatTimestamp(ToISOString(now))), "-",
      ToString(Cardinality(files)), "-", BaseName(url), ".", extension>>

\* a generateUniqueFilename that does not use the random suffix it drew
generateUniqueFilename_NoRandom(url, extension, now, randomBytes) ==
    <<Join(FormatTimestamp(ToISOString(now))), "-", "00000000", "-",
      BaseName(url), ".", extension>>

\* generateUniqueFilename, given the instant new Date() returned and the
\* bytes crypto.randomBytes(4) returned
generateUniqueFilename(url, extension, now, randomBytes) ==
    <<Join(FormatTimestamp(ToISOString(now))), "-", Join(ToHex(randomBytes)),
      "-", BaseName(url), ".", extension>>

\* path.join(downloadDir, filename)
PathJoin(dir, filename) == <<dir, "/">> \o filename

\* a try block that lists the content type before the path
SuccessResult_Swapped(filePath, contentType) ==
    [status |-> "returned", isError |-> FALSE,
     content |-> << [type |-> "text", text |-> <<"Content-Type: ", contentType>>],
                    [type |-> "text", text |-> <<"File saved to: ">> \o filePath] >>]

\* the object returned by the try block of a public method
SuccessResult(filePath, contentType) ==
    [status |-> "returned", isError |-> FALSE,
     content |-> << [type |-> "text", text |-> <<"File saved to: ">> \o filePath],
                    [type |-> "text", text |-> <<"Content-Type: ", contentType>>] >>]

\* a catch block of a public method that rethrows instead of returning
ErrorResult_Rethrow(error) ==
    [status |-> "thrown", isError |-> TRUE, content |-> <<>>]

\* a catch block of a public method that returns the message as a second
\* segment after an empty one
ErrorResult_TwoSegments(error) ==
    [status |-> "returned", isError |-> TRUE,
     content |-> << [type |-> "text", text |-> <<>>],
                    [type |-> "text", text |-> error.message] >>]

\* the object returned by the catch block of a public method
ErrorResult(error) ==
    [status |-> "returned", isError |-> TRUE,
     content |-> << [type |-> "text", text |-> error.message] >>]

\* a write that is handed the bare file name instead of the joined path
WriteFile_WrongPath(fs, path, content, writer) ==
    {f \in fs : f.path # Tail(Tail(path))}
        \cup {[path |-> Tail(Tail(path)), content |-> content, writer |-> writer]}

\* fs.writeFile(path, content): create or replace the file at path
WriteFile(fs, path, content, writer) ==
    {f \in fs : f.path # path}
        \cup {[path |-> path, content |-> content, writer |-> writer]}

(***************************************************************************)
(* State                                                                   *)
(***************************************************************************)
NoReq == [op |-> "none", url |-> ""]

NoLocals == [status |-> 0, content |-> <<>>, contentType |-> "", random |-> 0,
             filePath |-> <<>>, written |-> FALSE]

Pending == [status |-> "pending", isError |-> FALSE, content |-> <<>>]

\* a function that is not studied on its own in this behaviour
Unused == [phase |-> "none"]

\* no call of generateUniqueFilename on its own
NoGen == [phase |-> "none", url |-> "", extension |-> "", now |-> Now,
          randomBytes |-> <<>>, name |-> <<>>]

\* no invocation was called yet
NothingCalled ==
    /\ pc = [i \in Invocations |-> "idle"]
    /\ req = [i \in Invocations |-> NoReq]
    /\ locals = [i \in Invocations |-> NoLocals]
    /\ result = [i \in Invocations |-> Pending]
    /\ steps = [i \in Invocations |-> <<>>]
    /\ sent = [i \in Invocations |-> 0]
    /\ rejected = [i \in Invocations |-> <<>>]
    /\ responses = [i \in Invocations |-> <<>>]

Init ==
    /\ NothingCalled
    /\ dirExists \in BOOLEAN
    /\ files = {}
    /\ gen = NoGen
    /\ wire = Unused
    /\ conf = Unused
    /\ page = Unused
    /\ video = Unused

(***************************************************************************)
(* Actions                                                                 *)
(***************************************************************************)
\* an error thrown inside the try of _fetchAndSave: wrapped by its catch,
\* rethrown, and turned into the result by the catch of the public method
Throw(i, error) ==
    /\ result' = [result EXCEPT ![i] = ErrorResult(WrapError(req[i].url, error))]
    /\ pc' = [pc EXCEPT ![i] = "done"]

\* a collaborator's promise rejects with the value raw (kept for reference)
Rejects(i, raw) == rejected' = [rejected EXCEPT ![i] = <<raw>>]

\* what a collaborator call of invocation i answered (kept for reference)
Answer(call, ok, value) == [call |-> call, ok |-> ok, value |-> value]

Answers(i, answers) == responses' = [responses EXCEPT ![i] = @ \o answers]

\* Fetcher.html / json / txt / markdown is called: _fetchAndSave starts and
\* suspends at await fs.mkdir
Call(i) ==
    /\ pc[i] = "idle"
    /\ \E op \in Ops, url \in URLs :
          req' = [req EXCEPT ![i] = [op |-> op, url |-> url]]
    /\ pc' = [pc EXCEPT ![i] = "mkdir"]
    /\ steps' = [steps EXCEPT ![i] = <<"mkdir">>]
    /\ UNCHANGED <<locals, result, sent, rejected, responses, dirExists, files,
                   apart>>

\* fs.mkdir(downloadDir, {recursive: true}) settles; on success the guard
\* runs and fetch is called
MkdirReturns(i) ==
    /\ pc[i] = "mkdir"
    /\ \/ /\ ~(dirExists /\ ~MkdirOptions.recursive)
          /\ dirExists' = TRUE
          /\ Answers(i, <<Answer("mkdir", TRUE, <<>>)>>)
          /\ IF Truthy(isIpPrivate(req[i].url))
             THEN /\ Throw(i, BlockedError(req[i].url))
                  /\ steps' = [steps EXCEPT ![i] = @ \o <<"guard">>]
                  /\ UNCHANGED <<sent, rejected>>
             ELSE /\ pc' = [pc EXCEPT ![i] = "fetch"]
                  /\ steps' = [steps EXCEPT ![i] = @ \o <<"guard", "fetch">>]
                  /\ sent' = [sent EXCEPT ![i] = @ + RequestsIssued(req[i].url)]
                  /\ UNCHANGED <<result, rejected>>
       \/ /\ \E reason \in MkdirFailures(dirExists, MkdirOptions) :
                /\ Rejects(i, Err(<<reason>>))
                /\ Answers(i, <<Answer("mkdir", FALSE, <<reason>>)>>)
                /\ Throw(i, EnsureDirError(Err(<<reason>>)))
          /\ UNCHANGED <<steps, sent, dirExists>>
    /\ UNCHANGED <<req, locals, files, apart>>

\* fetch(url, {headers}) settles; the status is checked and the body read
\* is started
FetchReturns(i) ==
    /\ pc[i] = "fetch"
    /\ IF ~IsValidUrl(req[i].url)
       THEN /\ Rejects(i, ParseError(req[i].url))
            /\ Answers(i, <<Answer("fetch", FALSE, ParseError(req[i].url).message)>>)
            /\ Throw(i, ParseError(req[i].url))
            /\ UNCHANGED <<steps, locals>>
       ELSE \/ /\ \E reason \in NetworkReasons :
                     /\ Rejects(i, Err(<<reason>>))
                     /\ Answers(i, <<Answer("fetch", FALSE, <<reason>>)>>)
                     /\ Throw(i, Err(<<reason>>))
               /\ UNCHANGED <<steps, locals>>
            \/ /\ Rejects(i, NonError)
               /\ Answers(i, <<Answer("fetch", FALSE, <<>>)>>)
               /\ Throw(i, NonError)
               /\ UNCHANGED <<steps, locals>>
            \/ \E status \in Statuses :
                  /\ locals' = [locals EXCEPT ![i].status = status]
                  /\ Answers(i, <<Answer("fetch", TRUE, <<ToString(status)>>)>>)
                  /\ UNCHANGED rejected
                  /\ IF ~ResponseOk(status)
                     THEN /\ Throw(i, HttpError(status))
                          /\ steps' = [steps EXCEPT ![i] = @ \o <<"status">>]
                     ELSE /\ pc' = [pc EXCEPT ![i] = "body"]
                          /\ steps' = [steps EXCEPT ![i] =
                                          @ \o <<"status", "body">>]
                          /\ UNCHANGED result
    /\ UNCHANGED <<req, sent, dirExists, files, apart>>

\* response.text() / response.json() settles; the content is transformed,
\* the file name generated and fs.writeFile called
BodyReturns(i) ==
    /\ pc[i] = "body"
    /\ \/ /\ Rejects(i, Err(<<"terminated">>))
          /\ Answers(i, <<Answer("body", FALSE, <<"terminated">>)>>)
          /\ Throw(i, Err(<<"terminated">>))
          /\ UNCHANGED <<steps, locals>>
       \/ \E body \in Bodies :
             IF req[i].op = "json" /\ ~IsJson(body)
             THEN /\ Rejects(i, Err(<<"Unexpected token < in JSON at position 0">>))
                  /\ Answers(i, <<Answer("body", TRUE, body)>>)
                  /\ Throw(i, Err(<<"Unexpected token < in JSON at position 0">>))
                  /\ UNCHANGED <<steps, locals>>
             ELSE \E random \in 1..MaxRandom :
                     /\ Answers(i, <<Answer("body", TRUE, body),
                                     Answer("randomBytes", TRUE, <<ToString(random)>>)>>)
                     /\ locals' = [locals EXCEPT ![i] =
                           [status |-> @.status,
                            content |-> Transform(req[i].op, body),
                            contentType |-> ContentTypeOf(req[i].op),
                            random |-> random,
                            filePath |-> PathJoin(downloadDir,
                                generateUniqueFilename(req[i].url,
                                    ExtensionOf(req[i].op), Now,
                                    <<0, 0, 0, random>>)),
                            written |-> FALSE]]
                     /\ pc' = [pc EXCEPT ![i] = "write"]
                     /\ steps' = [steps EXCEPT ![i] =
                                     @ \o <<"transform", "filename", "write">>]
                     /\ UNCHANGED <<result, rejected>>
    /\ UNCHANGED <<req, sent, dirExists, files, apart>>

\* fs.writeFile(filePath, content, "utf8") settles; a rejected write may
\* already have created the file with truncated content
WriteReturns(i) ==
    /\ pc[i] = "write"
    /\ \/ /\ files' = WriteFile(files, locals[i].filePath, locals[i].content, i)
          /\ locals' = [locals EXCEPT ![i].written = TRUE]
          /\ result' = [result EXCEPT ![i] =
                SuccessResult(locals[i].filePath, locals[i].contentType)]
          /\ pc' = [pc EXCEPT ![i] = "done"]
          /\ Answers(i, <<Answer("writeFile", TRUE, <<>>)>>)
          /\ UNCHANGED rejected
       \/ /\ \E reason \in WriteReasons :
                /\ Rejects(i, Err(<<reason>>))
                /\ Answers(i, <<Answer("writeFile", FALSE, <<reason>>)>>)
                /\ Throw(i, Err(<<reason>>))
          /\ \/ files' = files
             \/ files' = WriteFile(files, locals[i].filePath, <<>>, i)
          /\ UNCHANGED locals
    /\ UNCHANGED <<req, steps, sent, dirExists, apart>>

\* the resumptions of invocation i, which the event loop runs once the
\* awaited promise has settled
Resume(i) ==
    \/ MkdirReturns(i)
    \/ FetchReturns(i)
    \/ BodyReturns(i)
    \/ WriteReturns(i)

Next ==
    \E i \in Invocations :
        \/ Call(i)
        \/ MkdirReturns(i)
        \/ FetchReturns(i)
        \/ BodyReturns(i)
        \/ WriteReturns(i)

Spec == Init /\ [][Next]_vars

\* every awaited promise settles and its continuation is then run
FairSpec == Spec /\ \A i \in Invocations : WF_vars(Resume(i))

(***************************************************************************)
(* Vocabulary of the properties                                            *)
(***************************************************************************)
Range(seq) == {seq[k] : k \in DOMAIN seq}

Called(i) == pc[i] # "idle"

Done(i) == pc[i] = "done"

Returned(i) == result[i].status = "returned"

Succeeded(i) == Returned(i) /\ ~result[i].isError

Failed(i) == Returned(i) /\ result[i].isError

\* the last stage the invocation entered
LastStage(i) == steps[i][Len(steps[i])]

\* the files in the download directory whose current content came from i
FilesOf(i) == {f \in files : f.writer = i}

\* a result in the Success shape
SuccessShape(r) ==
    /\ r.isError = FALSE
    /\ Len(r.content) = 2
    /\ \A k \in 1..2 : r.content[k].type = "text"
    /\ r.content[1].text[1] = "File saved to: "
    /\ r.content[2].text[1] = "Content-Type: "

\* a result in the Error shape
ErrorShape(r) ==
    /\ r.isError = TRUE
    /\ Len(r.content) = 1
    /\ r.content[1].type = "text"
    /\ r.content[1].text # <<>>

\* the url parses and its host is an address in a private range
HostIsPrivate(url) == url = "http://192.168.1.1/admin"

\* the message names the blocked private-IP attempt
MentionsPrivateIP(text) ==
    \E k \in DOMAIN text :
        text[k] = "Fetcher blocked an attempt to fetch a private IP "

\* the message names the URL format problem
MentionsInvalidUrlFormat(text) ==
    \E k \in DOMAIN text : text[k] = "Invalid URL format"

(***************************************************************************)
(* Claims                                                                  *)
(***************************************************************************)
\* C1: every invocation of a public method that was called ends by
\* returning a result in the Success or the Error shape, whatever the
\* collaborators do; nothing is thrown to the caller.
C1_AlwaysReturnsResult ==
    \A i \in Invocations :
        Called(i) ~> (Done(i) /\ Returned(i)
                      /\ (SuccessShape(result[i]) \/ ErrorShape(result[i])))

\* C1 witness: one invocation returned a success and the other an error
\* that came from a rejected collaborator
C1_Witness ==
    /\ Succeeded("inv1")
    /\ Failed("inv2") /\ rejected["inv2"] # <<>>

\* C2: a result with isError = FALSE names a path that this invocation's
\* own completed write targeted: the write returned without rejecting, the
\* file exists, and while it is this invocation's file its content is the
\* whole transformed content.
C2_NoPartialSuccess ==
    \A i \in Invocations :
        Succeeded(i) =>
            /\ locals[i].written
            /\ rejected[i] = <<>>
            /\ result[i].content[1].text = <<"File saved to: ">> \o locals[i].filePath
            /\ \E f \in files : f.path = locals[i].filePath
            /\ \A f \in FilesOf(i) :
                  f.path = locals[i].filePath => f.content = locals[i].content

\* C2 witness: an invocation succeeded and its file is in the directory
C2_Witness ==
    \E i \in Invocations :
        /\ Succeeded(i)
        /\ \E f \in FilesOf(i) : f.path = locals[i].filePath

\* C3 (as claimed): a request whose url has a private host ends with
\* isError = TRUE and a message containing "private IP", without an HTTP
\* request and without a file write.
C3_PrivateHostBlocked ==
    \A i \in Invocations :
        (Called(i) /\ HostIsPrivate(req[i].url)) =>
            /\ sent[i] = 0
            /\ "write" \notin Range(steps[i])
            /\ Done(i) => /\ Failed(i)
                          /\ MentionsPrivateIP(result[i].content[1].text)

\* C4 (as claimed): a request whose url is not a valid absolute URL causes
\* no directory creation, no HTTP request and no file write.
C4_InvalidUrlNoSideEffect ==
    \A i \in Invocations :
        (Called(i) /\ ~IsValidUrl(req[i].url)) =>
            /\ "mkdir" \notin Range(steps[i])
            /\ sent[i] = 0
            /\ "write" \notin Range(steps[i])

\* C5 (as claimed): a request whose url is not a valid absolute URL ends
\* with isError = TRUE and a first segment containing "Invalid URL format".
C5_InvalidUrlMessage ==
    \A i \in Invocations :
        (Done(i) /\ ~IsValidUrl(req[i].url)) =>
            /\ Failed(i)
            /\ MentionsInvalidUrlFormat(result[i].content[1].text)

\* C6: every success result has isError = FALSE and exactly two text
\* segments, "File saved to: <path>" with the absolute path under the
\* download directory first and "Content-Type: <type>" second.
C6_SuccessShape ==
    \A i \in Invocations :
        Succeeded(i) =>
            /\ result[i].isError = FALSE
            /\ Len(result[i].content) = 2
            /\ result[i].content[1] =
                  [type |-> "text",
                   text |-> <<"File saved to: ">> \o locals[i].filePath]
            /\ result[i].content[2] =
                  [type |-> "text",
                   text |-> <<"Content-Type: ", ContentTypeOf(req[i].op)>>]
            /\ locals[i].filePath[1] = downloadDir

\* C6 witness: two different operations both succeeded
C6_Witness ==
    /\ Succeeded("inv1") /\ Succeeded("inv2")
    /\ req["inv1"].op = "json" /\ req["inv2"].op = "markdown"

\* C7: every error result, whatever stage failed, has isError = TRUE and
\* exactly one text segment with a non-empty message.
C7_ErrorShape ==
    \A i \in Invocations :
        (Done(i) /\ ~Succeeded(i)) =>
            /\ Returned(i)
            /\ result[i].isError = TRUE
            /\ Len(result[i].content) = 1
            /\ result[i].content[1].type = "text"
            /\ Len(result[i].content[1].text) > 0
            /\ \A k \in DOMAIN result[i].content[1].text :
                  result[i].content[1].text[k] # ""

\* C7 witness: a security-policy error next to a persistence error
C7_Witness ==
    /\ Failed("inv1") /\ LastStage("inv1") = "guard"
    /\ Failed("inv2") /\ LastStage("inv2") = "write"

\* C8: a response whose status is outside 2xx/3xx ends in the single
\* message "Failed to fetch <url>: HTTP error: <status>"; the body is not
\* read and no file is written.
C8_HttpErrorStatus ==
    \A i \in Invocations :
        (locals[i].status # 0 /\ locals[i].status \notin 200..399) =>
            /\ Failed(i)
            /\ result[i].content =
                  << [type |-> "text",
                      text |-> <<"Failed to fetch ", req[i].url, ": ",
                                 "HTTP error: ", ToString(locals[i].status)>>] >>
            /\ "body" \notin Range(steps[i])
            /\ "write" \notin Range(steps[i])
            /\ FilesOf(i) = {}

\* C8 witness: an invocation received a 404
C8_Witness ==
    \E i \in Invocations : Done(i) /\ locals[i].status = 404

\* C9: a rejected fetch, body read/transformation or file write whose
\* error carries message M ends in the message "Failed to fetch <url>: M"
\* with the request's own url and one level of wrapping.
C9_GenericWrap ==
    \A i \in Invocations :
        (/\ Done(i)
         /\ rejected[i] # <<>>
         /\ LastStage(i) \in {"fetch", "body", "write"}
         /\ rejected[i][1].instanceofError) =>
            /\ Failed(i)
            /\ result[i].content[1].text =
                  <<"Failed to fetch ", req[i].url, ": ">> \o rejected[i][1].message

\* C9 witness: a network failure next to a write failure
C9_Witness ==
    /\ Done("inv1") /\ LastStage("inv1") = "fetch"
    /\ rejected["inv1"] = <<Err(<<"fetch failed">>)>>
    /\ Done("inv2") /\ LastStage("inv2") = "write" /\ rejected["inv2"] # <<>>

\* the invocation's mkdir was rejected
MkdirFailed(i) == Done(i) /\ LastStage(i) = "mkdir" /\ rejected[i] # <<>>

\* C10 (as claimed): when mkdir fails with reason R the message text is
\* "Failed to create download directory: R" and neither the guard, the
\* HTTP request nor a file write is reached.
C10_DirErrorAsClaimed ==
    \A i \in Invocations :
        MkdirFailed(i) =>
            /\ Failed(i)
            /\ result[i].content[1].text =
                  <<"Failed to create download directory: ">>
                      \o rejected[i][1].message
            /\ steps[i] = <<"mkdir">>
            /\ sent[i] = 0

\* C10 (amended): when mkdir fails with reason R the message text is
\* "Failed to fetch <url>: Failed to create download directory: R" and
\* neither the guard, the HTTP request nor a file write is reached.
C10_DirErrorWrapped ==
    \A i \in Invocations :
        MkdirFailed(i) =>
            /\ Failed(i)
            /\ result[i].content[1].text =
                  <<"Failed to fetch ", req[i].url, ": ",
                    "Failed to create download directory: ">>
                      \o rejected[i][1].message
            /\ steps[i] = <<"mkdir">>
            /\ sent[i] = 0
            /\ FilesOf(i) = {}

\* C10 witness: an invocation's mkdir was rejected
C10_Witness == \E i \in Invocations : MkdirFailed(i)

\* the guard blocked the invocation
Blocked(i) == Done(i) /\ Failed(i) /\ LastStage(i) = "guard"

\* C11 (as claimed): for a blocked url the surfaced message is exactly
\* "Failed to fetch <url>: Fetcher blocked an attempt to fetch a private IP
\* <url>. This is to prevent a security vulnerability where a local agent
\* could fetch privileged local IPs and exfiltrate data."
C11_BlockedMessageAsClaimed ==
    \A i \in Invocations :
        Blocked(i) =>
            result[i].content[1].text =
                <<"Failed to fetch ", req[i].url, ": ",
                  "Fetcher blocked an attempt to fetch a private IP ", req[i].url,
                  ". This is to prevent a security vulnerability where a local agent could fetch privileged local IPs and exfiltrate data.">>

\* C11 (amended): for a blocked url the surfaced message is exactly
\* "Failed to fetch <url>: Fetcher blocked an attempt to fetch a private IP
\* <url>. This is to prevent a security vulnerability where a local MCP
\* could fetch privileged local IPs and exfiltrate data.", the guard's
\* message nested once inside the outer wrap with the request url twice.
C11_BlockedMessage ==
    \A i \in Invocations :
        Blocked(i) =>
            result[i].content =
                << [type |-> "text",
                    text |-> <<"Failed to fetch ", req[i].url, ": ",
                  "Fetcher blocked an attempt to fetch a private IP ", req[i].url,
                  ". This is to prevent a security vulnerability where a local MCP could fetch privileged local IPs and exfiltrate data.">>] >>

\* C11 witness: the guard blocked an invocation
C11_Witness == \E i \in Invocations : Blocked(i) /\ req[i].url = "10.0.0.1"

\* the invocation called fs.writeFile
IssuedWrite(i) == "write" \in Range(steps[i])

\* C12 (as claimed): any two invocations that write a file use different
\* paths, even for the same url within the same timestamp granularity.
C12_PathsAlwaysDistinct ==
    \A i, j \in Invocations :
        (i # j /\ IssuedWrite(i) /\ IssuedWrite(j)) =>
            locals[i].filePath # locals[j].filePath

\* C12 (amended): two invocations that write within the same timestamp
\* granularity use different paths whenever their random suffixes, their
\* urls' basenames or their extensions differ; a file an invocation wrote
\* is never deleted, and its content stays as written unless another
\* invocation drew the same name.
C12_PathsDistinctUnlessSameDraw ==
    /\ \A i, j \in Invocations :
          (/\ i # j /\ IssuedWrite(i) /\ IssuedWrite(j)
           /\ \/ locals[i].random # locals[j].random
              \/ BaseName(req[i].url) # BaseName(req[j].url)
              \/ ExtensionOf(req[i].op) # ExtensionOf(req[j].op)) =>
              locals[i].filePath # locals[j].filePath
    /\ \A i \in Invocations :
          locals[i].written =>
              /\ \E f \in files : f.path = locals[i].filePath
              /\ (\A j \in Invocations \ {i} :
                     IssuedWrite(j) => locals[j].filePath # locals[i].filePath)
                 => \E f \in files : /\ f.path = locals[i].filePath
                                     /\ f.content = locals[i].content
                                     /\ f.writer = i

\* C12 witness: two invocations for the same url and kind, in the same
\* second, wrote two different files
C12_Witness ==
    /\ locals["inv1"].written /\ locals["inv2"].written
    /\ req["inv1"] = req["inv2"]
    /\ locals["inv1"].random # locals["inv2"].random
    /\ Cardinality(files) = 2

\* C13: two invocations with the same request whose own collaborator calls
\* answered the same end with the same result (isError, segments, path,
\* content type, message) and the same content to write, whatever the
\* other invocation did in between.
C13_ResultDependsOnOwnCalls ==
    \A i, j \in Invocations :
        (/\ Done(i) /\ Done(j)
         /\ req[i] = req[j]
         /\ responses[i] = responses[j]) =>
            /\ result[i] = result[j]
            /\ locals[i].content = locals[j].content
            /\ locals[i].contentType = locals[j].contentType
            /\ locals[i].filePath = locals[j].filePath

\* C13 witness: two successful invocations with the same request and the
\* same answers, whose writes went to the same path one after the other
C13_Witness ==
    /\ Succeeded("inv1") /\ Succeeded("inv2")
    /\ req["inv1"] = req["inv2"]
    /\ responses["inv1"] = responses["inv2"]
    /\ \E f \in files : f.writer = "inv2"

\* C14: ensureDownloadDirExists never fails when the download directory
\* already exists (created before, by an earlier call, or by a concurrent
\* invocation whose mkdir settled first), and after every successful call
\* the directory exists.
C14_EnsureDirIdempotent ==
    [][\A i \in Invocations :
          (pc[i] = "mkdir" /\ pc'[i] # "mkdir") =>
              /\ dirExists => (rejected'[i] = <<>> /\ dirExists')
              /\ rejected'[i] = <<>> => dirExists']_vars

\* C14 witness: both invocations were called and both mkdir calls
\* succeeded, the second one on the directory the first one left
C14_Witness ==
    /\ dirExists
    /\ \A i \in Invocations :
          /\ responses[i] # <<>>
          /\ responses[i][1] = Answer("mkdir", TRUE, <<>>)

\* the answers invocation i got from the named collaborator call
AnswersFrom(i, call) ==
    {k \in DOMAIN responses[i] : responses[i][k].call = call}

\* C15: an invocation issues at most one HTTP request and performs at most
\* one file write; an invocation that got a response issued its own
\* request and one that succeeded performed its own write, also when the
\* other invocation already fetched and saved the same url.
C15_NoRetryNoCache ==
    \A i \in Invocations :
        /\ sent[i] <= 1
        /\ Cardinality(AnswersFrom(i, "fetch")) <= 1
        /\ Cardinality(AnswersFrom(i, "writeFile")) <= 1
        /\ locals[i].status # 0 => sent[i] = 1
        /\ Succeeded(i) =>
              /\ sent[i] = 1
              /\ Cardinality(AnswersFrom(i, "writeFile")) = 1

\* C15 witness: two invocations for the same url and kind both succeeded,
\* each with its own request
C15_Witness ==
    /\ Succeeded("inv1") /\ Succeeded("inv2")
    /\ req["inv1"] = req["inv2"]
    /\ sent["inv1"] = 1 /\ sent["inv2"] = 1

\* the last piece of a path and the piece before it
LastPiece(path) == path[Len(path)]

SeparatorPiece(path) == path[Len(path) - 1]

\* C16: for every successful invocation the operation fixes the extension
\* of the returned path and the reported content type: html -> ".html" and
\* text/html, json -> ".json" and application/json, txt -> ".txt" and
\* text/plain, markdown -> ".md" and text/markdown.
C16_KindFixesExtensionAndType ==
    \A i \in Invocations :
        Succeeded(i) =>
            LET path == Tail(result[i].content[1].text)
                type == result[i].content[2].text[2]
            IN /\ SeparatorPiece(path) = "."
               /\ req[i].op = "html" =>
                     LastPiece(path) = "html" /\ type = "text/html"
               /\ req[i].op = "json" =>
                     LastPiece(path) = "json" /\ type = "application/json"
               /\ req[i].op = "txt" =>
                     LastPiece(path) = "txt" /\ type = "text/plain"
               /\ req[i].op = "markdown" =>
                     LastPiece(path) = "md" /\ type = "text/markdown"

\* C16 witness: a markdown and a txt invocation both succeeded
C16_Witness ==
    /\ Succeeded("inv1") /\ req["inv1"].op = "markdown"
    /\ Succeeded("inv2") /\ req["inv2"].op = "txt"

---------------------------------------------------------------------------
\* generateUniqueFilename on its own: the url, the extension, the instant
\* the clock shows and the random bytes are drawn, then the name is computed

Extensions == {ExtensionOf(op) : op \in Ops}

\* nothing is fetched while a function is studied on its own
NoFetching ==
    /\ NothingCalled
    /\ dirExists = TRUE
    /\ files = {}

NameInit ==
    /\ NoFetching
    /\ wire = Unused
    /\ conf = Unused
    /\ page = Unused
    /\ video = Unused
    /\ gen \in [phase : {"input"}, url : {Href(u) : u \in AbsoluteUrls},
                extension : Extensions, now : Instants,
                randomBytes : ByteStrings, name : {<<>>}]

Generate ==
    /\ gen.phase = "input"
    /\ gen' = [gen EXCEPT !.phase = "output",
                          !.name = generateUniqueFilename(gen.url,
                                       gen.extension, gen.now, gen.randomBytes)]
    /\ UNCHANGED <<fetching, wire, conf, page, video>>

NameNext == Generate

NameSpec == NameInit /\ [][NameNext]_vars

\* the name has been generated
Generated == gen.phase = "output"

\* the pieces of a name written one after the other
RECURSIVE Text(_)
Text(pieces) == IF pieces = <<>> THEN "" ELSE pieces[1] \o Text(Tail(pieces))

\* the two decimal digits of n
TwoDigits(n) == ToString(n \div 10) \o ToString(n % 10)

\* YYYYMMDDTHHMMSS of an instant, followed by Z
Stamp(t) ==
    ToString(t.year \div 1000) \o ToString((t.year \div 100) % 10)
        \o TwoDigits(t.year % 100) \o TwoDigits(t.month) \o TwoDigits(t.day)
        \o "T" \o TwoDigits(t.hour) \o TwoDigits(t.minute)
        \o TwoDigits(t.second) \o "Z"

\* the hexadecimal digit of a value 0..15
HexDigitOf(v) ==
    IF v < 10 THEN ToString(v)
    ELSE CASE v = 10 -> "a" [] v = 11 -> "b" [] v = 12 -> "c"
           [] v = 13 -> "d" [] v = 14 -> "e" [] v = 15 -> "f"

\* the 8 hexadecimal characters of 4 bytes
EightHex(bytes) ==
    Join([k \in 1..8 |->
             LET byte == bytes[(k + 1) \div 2]
             IN HexDigitOf(IF k % 2 = 1 THEN byte \div 16 ELSE byte % 16)])

\* C17: the generated name is "<timestamp>-<random>-<basename>.<extension>",
\* the timestamp being the clock's UTC time as YYYYMMDDTHHMMSS followed by Z
\* and the random part the 8 hex characters of the random source; for
\* https://example.com/path/to/page, html, 2023-10-27T10:30:00Z and a1b2c3d4
\* it is 20231027T103000Z-a1b2c3d4-page.html
C17_FilenameFormat ==
    Generated =>
        /\ Len(gen.name) = 7
        /\ gen.name[1] = Stamp(gen.now)
        /\ gen.name[2] = "-"
        /\ gen.name[3] = EightHex(gen.randomBytes)
        /\ gen.name[4] = "-"
        /\ gen.name[6] = "."
        /\ gen.name[7] = gen.extension
        /\ ( /\ gen.url = "https://example.com/path/to/page"
             /\ gen.extension = "html"
             /\ gen.now = Instant(2023, 10, 27, 10, 30, 0, 0)
             /\ gen.randomBytes = <<161, 178, 195, 212>> )
           => Text(gen.name) = "20231027T103000Z-a1b2c3d4-page.html"

C17_Witness ==
    /\ Generated
    /\ gen.url = "https://example.com/path/to/page"
    /\ gen.extension = "html"
    /\ gen.now = Instant(2023, 10, 27, 10, 30, 0, 0)
    /\ gen.randomBytes = <<161, 178, 195, 212>>

\* the url as the caller wrote it
Written(url) == CHOOSE u \in AbsoluteUrls : Href(u) = url

\* the path holds a segment that is not empty
HasSegment(path) == \E k \in DOMAIN path : path[k] # "/"

\* the last run of characters other than "/" in a path
LastSegment(path) ==
    LET last == CHOOSE k \in DOMAIN path :
                    path[k] # "/" /\ \A m \in (k + 1)..Len(path) : path[m] = "/"
        first == CHOOSE k \in 1..last :
                     /\ \A m \in k..last : path[m] # "/"
                     /\ k = 1 \/ path[k - 1] = "/"
    IN SubSeq(path, first, last)

\* a segment with "_" in the place of each character outside [A-Za-z0-9_-]
Underscored(segment) ==
    [k \in DOMAIN segment |->
        IF segment[k] \in SafeChars THEN segment[k] ELSE "_"]

\* the first 50 characters
First50(chars) == SubSeq(chars, 1, IF Len(chars) < 50 THEN Len(chars) ELSE 50)

\* the basename part of the generated name
GeneratedBaseName == gen.name[5]

\* C18 as claimed: the basename is the last path segment of the url as given,
\* each character outside [A-Za-z0-9_-] replaced one-for-one by "_", cut to
\* 50 characters
C18_OneForOneOnGivenSegment ==
    (Generated /\ HasSegment(Written(gen.url).path)) =>
        GeneratedBaseName
            = Join(First50(Underscored(LastSegment(Written(gen.url).path))))

\* C18: the basename is the last segment of the url's parsed (percent-encoded)
\* path, each character outside [A-Za-z0-9_-] replaced one-for-one by "_",
\* cut to 50 characters
C18_OneForOneOnEncodedSegment ==
    (Generated /\ HasSegment(NewURL(gen.url).pathname)) =>
        GeneratedBaseName
            = Join(First50(Underscored(LastSegment(NewURL(gen.url).pathname))))

C18_Witness ==
    /\ Generated
    /\ Written(gen.url).path = <<"/">> \o Repeat("z", 48) \o <<" ", "q", "!">>
    /\ GeneratedBaseName = Join(Repeat("z", 48) \o <<"_", "2">>)

\* C19: the basename comes from the last non-empty segment of the url's
\* path, empty segments being ignored; exactly when the path has no
\* non-empty segment it is the sanitized hostname (https://example.com gives
\* example_com)
C19_LastSegmentOrHostname ==
    Generated =>
        /\ GeneratedBaseName
             = Join(First50(Underscored(
                   IF HasSegment(NewURL(gen.url).pathname)
                   THEN LastSegment(NewURL(gen.url).pathname)
                   ELSE Written(gen.url).host)))
        /\ gen.url = "https://example.com" => GeneratedBaseName = "example_com"
        /\ gen.url = "https://example.com/docs//guide/"
             => GeneratedBaseName = "guide"

C19_Witness ==
    /\ Generated
    /\ gen.url = "https://example.com"
    /\ GeneratedBaseName = "example_com"

\* the body the endpoint answered invocation i with
ResponseBody(i) ==
    responses[i][CHOOSE k \in DOMAIN responses[i] :
                     responses[i][k].call = "body" /\ responses[i][k].ok].value

\* C20 as claimed: what a successful Fetcher.json persisted, read back and
\* parsed, equals the value response.json() gave for the response body
C20_JsonRoundTrip ==
    \A i \in Invocations :
        (Succeeded(i) /\ req[i].op = "json") =>
            \A f \in FilesOf(i) :
                JsonParse(f.content) = JsonParse(ResponseBody(i))

\* a JSON response whose numbers are all finite doubles is persisted as text
\* that parses back to the value of the response
C20_RoundTripOfFiniteNumbers ==
    \A i \in Invocations :
        (Succeeded(i) /\ req[i].op = "json"
            /\ \A k \in DOMAIN ResponseBody(i) :
                  ResponseBody(i)[k] \in NumberLiterals
                      => ToDouble(ResponseBody(i)[k]) \notin {"Infinity", "-0"})
        => \A f \in FilesOf(i) :
               /\ JsonParse(f.content) = JsonParse(ResponseBody(i))
               /\ f.content = JsonStringify(JsonParse(ResponseBody(i)))

---------------------------------------------------------------------------
\* the headers of the request on their own: the caller's headers are drawn,
\* then the init of fetch is built and handed to fetch

\* the most headers a caller supplies
MaxHeaders == 2

Header(key, value) == [key |-> key, value |-> value]

DefaultUserAgent ==
    "Mozilla/5.0 (Windows NT 10.0; Win64; x64) AppleWebKit/537.36 (KHTML, like Gecko) Chrome/120.0.0.0 Safari/537.36"

\* the properties the object literal starts with
DefaultHeaders == <<Header("User-Agent", DefaultUserAgent)>>

HeaderKeys == {"Custom-Header", "User-Agent", "user-agent", "Accept"}

HeaderValues == {"Value", "CustomAgent/1.0"}

\* the headers objects of callers: up to MaxHeaders properties, each key
\* once, in insertion order; none when headers is omitted
CallerHeaders ==
    UNION { { h \in [1..n -> {Header(k, v) : k \in HeaderKeys, v \in HeaderValues}] :
                \A a, b \in 1..n : a # b => h[a].key # h[b].key }
            : n \in 0..MaxHeaders }

\* a spread that keeps a property the target already has
RECURSIVE Spread_KeepTarget(_, _)
Spread_KeepTarget(target, source) ==
    IF source = <<>> THEN target
    ELSE Spread_KeepTarget(
             IF \E k \in DOMAIN target : target[k].key = source[1].key
             THEN target
             ELSE Append(target, source[1]), Tail(source))

\* { ...target, ...source }: the properties of source are defined on the
\* object in their order
RECURSIVE Spread(_, _)
Spread(target, source) ==
    IF source = <<>> THEN target
    ELSE Spread(Put(target, source[1].key, source[1].value), Tail(source))

\* the headers member of the init handed to fetch
HeadersInit(headers) == Spread(DefaultHeaders, headers)

\* header names are matched byte-case-insensitively
LowerCase(name) ==
    CASE name = "User-Agent" -> "user-agent"
      [] name = "Custom-Header" -> "custom-header"
      [] name = "Accept" -> "accept"
      [] OTHER -> name

\* fetch fills its header list from the init: each property is appended, and
\* a value appended under a name the list already holds is combined with the
\* value that is there
RECURSIVE FillHeaders(_, _)
FillHeaders(list, init) ==
    IF init = <<>> THEN list
    ELSE LET name == LowerCase(init[1].key)
         IN FillHeaders(
                IF \E k \in DOMAIN list : list[k].name = name
                THEN [k \in DOMAIN list |->
                         IF list[k].name = name
                         THEN [name |-> name,
                               value |-> list[k].value \o ", " \o init[1].value]
                         ELSE list[k]]
                ELSE Append(list, [name |-> name, value |-> init[1].value]),
                Tail(init))

HeaderInit ==
    /\ NoFetching
    /\ gen = NoGen
    /\ wire \in [phase : {"input"}, headers : CallerHeaders]
    /\ conf = Unused
    /\ page = Unused
    /\ video = Unused

\* fetch(url, { headers: { "User-Agent": ..., ...headers } })
SendRequest ==
    /\ wire.phase = "input"
    /\ wire' = [phase |-> "sent", headers |-> wire.headers,
                init |-> HeadersInit(wire.headers),
                sent |-> FillHeaders(<<>>, HeadersInit(wire.headers))]
    /\ UNCHANGED <<fetching, gen, conf, page, video>>

HeaderNext == SendRequest

HeaderSpec == HeaderInit /\ [][HeaderNext]_vars

\* the values the request carries under a header name
SentValues(name) ==
    {wire.sent[k].value : k \in {m \in DOMAIN wire.sent : wire.sent[m].name = name}}

\* C21 as claimed: every header of the caller is sent with the caller's value
\* and no other, also when it names a default header; the default User-Agent
\* is sent whenever the caller supplies none
C21_CallerHeadersReplaceDefaults ==
    wire.phase = "sent" =>
        /\ \A k \in DOMAIN wire.headers :
              SentValues(LowerCase(wire.headers[k].key)) = {wire.headers[k].value}
        /\ (\A k \in DOMAIN wire.headers :
               LowerCase(wire.headers[k].key) # "user-agent")
             => SentValues("user-agent") = {DefaultUserAgent}

\* the init handed to fetch holds every property of the caller with the
\* caller's value, each key once, and the default User-Agent unless the
\* caller has a property of exactly that key
C21_InitOverlaysDefaults ==
    wire.phase = "sent" =>
        /\ \A k \in DOMAIN wire.headers :
              \E m \in DOMAIN wire.init : wire.init[m] = wire.headers[k]
        /\ \A a, b \in DOMAIN wire.init :
              wire.init[a].key = wire.init[b].key => a = b
        /\ (\A k \in DOMAIN wire.headers : wire.headers[k].key # "User-Agent")
             => wire.init[1] = Header("User-Agent", DefaultUserAgent)

---------------------------------------------------------------------------
\* the resolution of the download directory on its own: the command line,
\* the environment, the working directory and the state of the file system
\* are drawn, then a config module is loaded

\* paths are written as their names and the "/" between them
Root == <<"/">>

HomeDir == <<"/", "home", "/", "user">>

ProjectDir == <<"/", "home", "/", "user", "/", "project">>

TmpDir == <<"/", "tmp">>

\* a value of argv or process.env: a string, or undefined
Given(path) == [given |-> TRUE, path |-> path]

Absent == [given |-> FALSE, path |-> <<>>]

\* JavaScript truthiness of a string or undefined
IsTruthy(v) == v.given /\ v.path # <<>>

\* the names of a path, without the empty ones
Names(p) == SelectSeq(p, LAMBDA t : t # "/")

\* path.isAbsolute
IsAbsolute(p) == p # <<>> /\ p[1] = "/"

\* the names left when "." and ".." are worked off
RECURSIVE NormalizeNames(_, _, _)
NormalizeNames(names, done, absolute) ==
    IF names = <<>> THEN done
    ELSE NormalizeNames(Tail(names),
             CASE names[1] = "." -> done
               [] names[1] = ".." ->
                     IF done # <<>> /\ done[Len(done)] # ".."
                     THEN SubSeq(done, 1, Len(done) - 1)
                     ELSE IF absolute THEN done ELSE Append(done, "..")
               [] OTHER -> Append(done, names[1]),
             absolute)

\* the path of a sequence of names
RECURSIVE Slashed(_)
Slashed(names) ==
    IF Len(names) <= 1 THEN names
    ELSE <<names[1], "/">> \o Slashed(Tail(names))

PathOf(absolute, names) ==
    IF names = <<>> THEN (IF absolute THEN Root ELSE <<".">>)
    ELSE (IF absolute THEN Root ELSE <<>>) \o Slashed(names)

\* path.normalize, without a trailing separator
PathNormalize(p) ==
    PathOf(IsAbsolute(p), NormalizeNames(Names(p), <<>>, IsAbsolute(p)))

\* path.join(a, b)
PathJoin2(a, b) ==
    PathNormalize(IF a = <<>> THEN b ELSE IF b = <<>> THEN a ELSE a \o <<"/">> \o b)

\* path.resolve(from, to) with from absolute
PathResolve(from, to) ==
    IF IsAbsolute(to) THEN PathNormalize(to) ELSE PathJoin2(from, to)

\* path.dirname
PathDirname(p) ==
    LET names == Names(p)
    IN IF Len(names) <= 1 THEN (IF IsAbsolute(p) THEN Root ELSE <<".">>)
       ELSE (IF IsAbsolute(p) THEN Root ELSE <<>>)
                \o Slashed(SubSeq(names, 1, Len(names) - 1))

\* path.basename
PathBasename(p) ==
    LET names == Names(p)
    IN IF names = <<>> THEN <<>> ELSE <<names[Len(names)]>>

\* the strings given as --download-dir, --downloadDir and MCP_DOWNLOAD_DIR
ConfiguredPaths ==
    { <<"/", "fetch_downloads">>,
      <<"/", "tmp", "/", "arg_downloads">>,
      <<"/", "tmp", "/", "env_downloads">>,
      <<".", "/", "mcp_custom_downloads">>,
      <<"custom_downloads">>,
      <<"sub", "/", "dir">>,
      <<"..", "/", "up">>,
      <<>> }

\* a resolution that consults the environment before the command line
DownloadDirSource_EnvFirst(argv, env) ==
    IF IsTruthy(env.MCP_DOWNLOAD_DIR) THEN env.MCP_DOWNLOAD_DIR
    ELSE IF IsTruthy(argv.dash) THEN argv.dash ELSE argv.camel

\* argv["download-dir"] || argv.downloadDir, and MCP_DOWNLOAD_DIR if that
\* is falsy
DownloadDirSource(argv, env) ==
    LET fromArgs == IF IsTruthy(argv.dash) THEN argv.dash ELSE argv.camel
    IN IF ~IsTruthy(fromArgs) THEN env.MCP_DOWNLOAD_DIR ELSE fromArgs

\* a default that is left relative
DefaultDownloadDir_Relative(cwd) == <<".downloaded_files">>

\* path.resolve(process.cwd(), ".downloaded_files")
DefaultDownloadDir(cwd) == PathResolve(cwd, <<".downloaded_files">>)

\* the downloadDir that config.ts exports
ResolveDownloadDir(argv, env, cwd) ==
    LET downloadDirSource == DownloadDirSource(argv, env)
    IN IF IsTruthy(downloadDirSource)
       THEN PathResolve(cwd, downloadDirSource.path)
       ELSE DefaultDownloadDir(cwd)

\* the module with the home directory fallbacks

\* isMcpEnvironment: any of the direct signals (the file system checks after
\* them are reached only when the working directory is not the root, where
\* they answer false)
isMcpEnvironment(env, cwd) ==
    \/ IsTruthy(env.MCP_HOST)
    \/ env.NODE_ENV = "mcp"
    \/ cwd = Root
    \/ env.MCP_DOWNLOAD_DIR = Given(<<"/", "fetch_downloads">>)
    \/ /\ env.MCP_DOWNLOAD_DIR = Given(<<".", "/", "fetch_downloads">>)
       /\ cwd = Root

DefaultDirName == <<"fetch_downloads">>

\* a createSafePath that does not look at the parent directory
createSafePath_Unchecked(basePath, dirName, usable) == PathJoin2(basePath, dirName)

\* createSafePath: basePath/dirName when its parent directory exists and is
\* writable (usable), the same name in the home directory otherwise
createSafePath(basePath, dirName, usable) ==
    LET fullPath == PathJoin2(basePath, dirName)
        parentDir == PathDirname(fullPath)
    IN IF parentDir \notin usable THEN PathJoin2(HomeDir, dirName)
       ELSE fullPath

\* String.prototype.startsWith("./") or ("../")
StartsRelative(p) ==
    Len(p) >= 2 /\ p[1] \in {".", ".."} /\ p[2] = "/"

\* normalizePath of a string that is not empty
normalizePath(given, isMcp, cwd, usable) ==
    LET simple == "/" \notin {given[k] : k \in DOMAIN given}
        dirName == IF simple THEN given ELSE <<>>
        inputPath == IF simple THEN <<".", "/">> \o given ELSE given
        relativeDirName == PathBasename(inputPath)
    IN IF given = <<"/", "fetch_downloads">>
       THEN createSafePath(HomeDir, <<"fetch_downloads">>, usable)
       ELSE IF isMcp /\ StartsRelative(inputPath)
       THEN IF dirName # <<>> \/ relativeDirName # <<".">>
            THEN createSafePath(HomeDir,
                     IF dirName # <<>> THEN dirName ELSE relativeDirName, usable)
            ELSE createSafePath(HomeDir, DefaultDirName, usable)
       ELSE IF IsAbsolute(inputPath)
       THEN createSafePath(PathDirname(inputPath), PathBasename(inputPath), usable)
       ELSE IF cwd = Root
       THEN createSafePath(HomeDir,
                IF dirName # <<>> THEN dirName ELSE DefaultDirName, usable)
       ELSE LET resolvedPath == PathResolve(cwd, inputPath)
            IN createSafePath(PathDirname(resolvedPath),
                              PathBasename(resolvedPath), usable)

\* the downloadDir that the module with the fallbacks exports
ResolveSafeDownloadDir(argv, env, cwd, usable) ==
    LET downloadDirSource == DownloadDirSource(argv, env)
    IN IF IsTruthy(downloadDirSource)
       THEN normalizePath(downloadDirSource.path, isMcpEnvironment(env, cwd),
                          cwd, usable)
       ELSE createSafePath(HomeDir, DefaultDirName, usable)

Argument(paths) == {Absent} \cup {Given(p) : p \in paths}

ConfigInit ==
    /\ NoFetching
    /\ gen = NoGen
    /\ wire = Unused
    /\ page = Unused
    /\ video = Unused
    /\ conf \in
         [phase : {"start"},
          argv : [dash : Argument({<<"/", "tmp", "/", "arg_downloads">>,
                                   <<"/", "fetch_downloads">>, <<>>}),
                  camel : Argument({<<".", "/", "mcp_custom_downloads">>})],
          env : [MCP_DOWNLOAD_DIR : Argument(ConfiguredPaths),
                 MCP_HOST : Argument({<<"true">>}),
                 NODE_ENV : {"production", "mcp"}],
          cwd : {ProjectDir, Root},
          usable : SUBSET {Root, TmpDir, HomeDir, ProjectDir}]

\* config.ts is loaded
LoadConfig ==
    /\ conf.phase = "start"
    /\ conf' = [phase |-> "loaded", argv |-> conf.argv, env |-> conf.env,
                cwd |-> conf.cwd, usable |-> conf.usable,
                downloadDir |-> ResolveDownloadDir(conf.argv, conf.env, conf.cwd)]
    /\ UNCHANGED <<fetching, gen, wire, page, video>>

\* the module with the home directory fallbacks is loaded
LoadSafeConfig ==
    /\ conf.phase = "start"
    /\ conf' = [phase |-> "safe", argv |-> conf.argv, env |-> conf.env,
                cwd |-> conf.cwd, usable |-> conf.usable,
                downloadDir |-> ResolveSafeDownloadDir(conf.argv, conf.env,
                                    conf.cwd, conf.usable)]
    /\ UNCHANGED <<fetching, gen, wire, page, video>>

ConfigNext == LoadConfig \/ LoadSafeConfig

ConfigSpec == ConfigInit /\ [][ConfigNext]_vars

\* the value given on the command line: --download-dir, else --downloadDir
CommandLineValue ==
    IF IsTruthy(conf.argv.dash) THEN conf.argv.dash ELSE conf.argv.camel

\* a config module was loaded
ConfigLoaded == conf.phase \in {"loaded", "safe"}

\* the last name of a path
LastName(p) == p[Len(p)]

\* dir/name
Under(dir, name) == IF dir = Root THEN <<"/", name>> ELSE dir \o <<"/", name>>

\* C22: a path given on the command line is the one that is resolved,
\* whatever MCP_DOWNLOAD_DIR holds; MCP_DOWNLOAD_DIR is resolved only when
\* the command line gives none
C22_ArgumentBeforeEnvironment ==
    /\ (conf.phase = "loaded" /\ IsTruthy(CommandLineValue))
          => conf.downloadDir = PathResolve(conf.cwd, CommandLineValue.path)
    /\ (conf.phase = "loaded" /\ ~IsTruthy(CommandLineValue)
            /\ IsTruthy(conf.env.MCP_DOWNLOAD_DIR))
          => conf.downloadDir = PathResolve(conf.cwd, conf.env.MCP_DOWNLOAD_DIR.path)
    /\ (conf.phase = "safe" /\ IsTruthy(CommandLineValue))
          => LastName(conf.downloadDir) = LastName(CommandLineValue.path)

C22_Witness ==
    /\ conf.phase = "loaded"
    /\ conf.argv.dash = Given(<<"/", "tmp", "/", "arg_downloads">>)
    /\ conf.env.MCP_DOWNLOAD_DIR = Given(<<"/", "tmp", "/", "env_downloads">>)
    /\ conf.downloadDir = <<"/", "tmp", "/", "arg_downloads">>

ConfiguredPath ==
    IF IsTruthy(CommandLineValue) THEN CommandLineValue.path
    ELSE conf.env.MCP_DOWNLOAD_DIR.path

InMcpEnvironment ==
    \/ IsTruthy(conf.env.MCP_HOST)
    \/ conf.env.NODE_ENV = "mcp"
    \/ conf.cwd = Root
    \/ conf.env.MCP_DOWNLOAD_DIR = Given(<<"/", "fetch_downloads">>)

\* a path is configured and it is relative
RelativeConfigured == ConfiguredPath # <<>> /\ ConfiguredPath[1] # "/"

\* the configured path is a bare name or starts with ./ or ../
DotRelativeConfigured ==
    /\ RelativeConfigured
    /\ \/ Len(ConfiguredPath) = 1
       \/ ConfiguredPath[1] \in {".", ".."}

---------------------------------------------------------------------------
\* the guard was evaluated
GuardReached(i) == "guard" \in Range(steps[i])

\* C25 as claimed: when the classifier gives no verdict for the url the
\* request is treated as blocked and no HTTP request is issued
C25_NoVerdictBlocks ==
    \A i \in Invocations :
        (GuardReached(i) /\ isIpPrivate(req[i].url) \notin {"true", "false"}) =>
            /\ sent[i] = 0
            /\ "fetch" \notin Range(steps[i])
            /\ Done(i) /\ Failed(i)

\* the stages of one invocation in the order of the code
StageOrder ==
    <<"mkdir", "guard", "fetch", "status", "body", "transform", "filename",
      "write">>

\* the answer invocation i got from a collaborator call was a success
AnsweredOk(i, call) ==
    \E k \in DOMAIN responses[i] :
        responses[i][k].call = call /\ responses[i][k].ok

\* C26: the stages an invocation entered are an initial part of directory
\* ensure, guard, request, status check, body read, transformation, file
\* name, write; the request is issued only after the directory was ensured
\* and the guard passed, the write only after a successful response and a
\* successful body read, and a success result only after the write
C26_StagesInOrder ==
    \A i \in Invocations :
        /\ Len(steps[i]) <= Len(StageOrder)
        /\ steps[i] = SubSeq(StageOrder, 1, Len(steps[i]))
        /\ "fetch" \in Range(steps[i]) =>
              /\ AnsweredOk(i, "mkdir")
              /\ dirExists
              /\ isIpPrivate(req[i].url) # "true"
        /\ sent[i] > 0 => "fetch" \in Range(steps[i])
        /\ "write" \in Range(steps[i]) =>
              /\ sent[i] = 1
              /\ locals[i].status \in 200..299
              /\ AnsweredOk(i, "body")
        /\ Succeeded(i) => (steps[i] = StageOrder /\ AnsweredOk(i, "writeFile"))

C26_Witness ==
    \E i \in Invocations :
        /\ Succeeded(i)
        /\ steps[i] = StageOrder
        /\ \E j \in Invocations : Blocked(j) /\ steps[j] = <<"mkdir", "guard">>

\* C27 as claimed: an invocation that returned an error result has left no
\* file in the download directory, whatever the stage that failed
C27_ErrorLeavesNoFile ==
    \A i \in Invocations : Failed(i) => FilesOf(i) = {}

\* an invocation that failed before its write was issued has left no file
C27_NoFileBeforeWrite ==
    \A i \in Invocations :
        (Failed(i) /\ ~IssuedWrite(i)) => FilesOf(i) = {}

---------------------------------------------------------------------------
\* the conversion to text on its own: the content of a body element is
\* drawn, then converted as the txt case of the switch converts it

\* the most tokens of a body
MaxHtmlTokens == 4

HtmlTokens == {"a", " ", "\n", "<script>", "</script>", "<style>", "</style>",
               "<p>"}

HtmlBodies == UNION {[1..n -> HtmlTokens] : n \in 0..MaxHtmlTokens}

TextInit ==
    /\ NoFetching
    /\ gen = NoGen
    /\ wire = Unused
    /\ conf = Unused
    /\ video = Unused
    /\ page \in [phase : {"fetched"}, html : HtmlBodies]

ConvertToText ==
    /\ page.phase = "fetched"
    /\ page' = [phase |-> "converted", html |-> page.html,
                content |-> Transform("txt", page.html)]
    /\ UNCHANGED <<fetching, gen, wire, conf, video>>

TextNext == ConvertToText

TextSpec == TextInit /\ [][TextNext]_vars

\* how often a token occurs
Count(tokens, token) == Cardinality({k \in DOMAIN tokens : tokens[k] = token})

\* the text tokens that do not directly follow the start tag of a script
\* or style element
NotAfterOpener(html) ==
    {k \in DOMAIN html :
        /\ html[k] = "a"
        /\ k = 1 \/ html[k - 1] \notin {"<script>", "<style>"}}

\* C28: the text persisted for the txt kind holds no tag and no text of a
\* script or style element, all the text of a body without such elements, no
\* two whitespace characters in a row and none at its start or end;
\* collapsing and trimming it again leaves it unchanged
C28_TextCollapsedAndTrimmed ==
    page.phase = "converted" =>
        LET text == page.content
        IN /\ \A k \in DOMAIN text : text[k] \in {"a", " "}
           /\ Count(text, "a") <= Cardinality(NotAfterOpener(page.html))
           /\ (\A k \in DOMAIN page.html :
                  page.html[k] \notin {"<script>", "<style>"})
                => Count(text, "a") = Count(page.html, "a")
           /\ \A k \in 1..(Len(text) - 1) : ~(text[k] = " " /\ text[k + 1] = " ")
           /\ text # <<>> => (text[1] # " " /\ text[Len(text)] # " ")
           /\ Trim(Collapse(text)) = text

C28_Witness ==
    /\ page.phase = "converted"
    /\ page.html = <<"a", " ", "\n", "a">>
    /\ page.content = <<"a", " ", "a">>

---------------------------------------------------------------------------
\* the characters of the parts of the generated name
TimestampChars == FormatTimestamp(ToISOString(gen.now))

RandomChars == ToHex(gen.randomBytes)

BasenameChars == BaseNameChars(gen.url)

Letters ==
    {"a", "b", "c", "d", "e", "f", "g", "h", "i", "j", "k", "l", "m", "n", "o",
     "p", "q", "r", "s", "t", "u", "v", "w", "x", "y", "z",
     "A", "B", "C", "D", "E", "F", "G", "H", "I", "J", "K", "L", "M", "N", "O",
     "P", "Q", "R", "S", "T", "U", "V", "W", "X", "Y", "Z"}

Digits == {"0", "1", "2", "3", "4", "5", "6", "7", "8", "9"}

\* C29: for every url that parses the generated name is made of a timestamp,
\* a random part and a basename that hold only letters, digits, "_" and "-",
\* joined by "-", and of "." and one of the four extensions; it holds no
\* path separator and no other ".", so downloadDir joined with it is a
\* direct child of downloadDir
C29_NameStaysInDownloadDir ==
    Generated =>
        /\ gen.name = <<Join(TimestampChars), "-", Join(RandomChars), "-",
                        Join(BasenameChars), ".", gen.extension>>
        /\ gen.extension \in {"html", "json", "txt", "md"}
        /\ \A k \in DOMAIN TimestampChars : TimestampChars[k] \in Letters \cup Digits
        /\ \A k \in DOMAIN RandomChars : RandomChars[k] \in Letters \cup Digits
        /\ \A k \in DOMAIN BasenameChars :
              BasenameChars[k] \in Letters \cup Digits \cup {"_", "-"}

C29_Witness ==
    /\ Generated
    /\ gen.url = "https://sub.example-site.org/index.html"
    /\ GeneratedBaseName = "index_html"

---------------------------------------------------------------------------
\* parseVideoId on its own: a url is drawn, then parsed

\* candidate video ids: a good one, one too short, one too long, one with a
\* character outside the alphabet
GoodId == <<"d", "Q", "w", "4", "w", "9", "W", "g", "X", "c", "Q">>

VideoIds == { GoodId, <<"d", "Q", "w", "4", "w", "9", "W", "g", "X", "c">>,
              <<"d", "Q", "w", "4", "w", "9", "W", "g", "X", "c", "Q", "Q">>,
              <<"d", "Q", "w", "4", "w", "9", "W", "g", "X", ".", "Q">> }

VideoHosts == { <<"w", "w", "w", ".", "y", "o", "u", "t", "u", "b", "e", ".", "c", "o", "m">>, <<"y", "o", "u", "t", "u", "b", "e", ".", "c", "o", "m">>,
                <<"n", "o", "t", "y", "o", "u", "t", "u", "b", "e", ".", "c", "o", "m">>, <<"y", "o", "u", "t", "u", ".", "b", "e">>,
                <<"e", "x", "a", "m", "p", "l", "e", ".", "c", "o", "m">> }

VideoPaths ==
    { <<"/", "w", "a", "t", "c", "h">>, <<"/", "e", "m", "b", "e", "d", "/">>, <<"/", "s", "h", "o", "r", "t", "s", "/">>, <<"/">> }
        \cup { <<"/", "e", "m", "b", "e", "d", "/">> \o id : id \in VideoIds }
        \cup { <<"/", "s", "h", "o", "r", "t", "s", "/">> \o id : id \in VideoIds }
        \cup { <<"/">> \o id : id \in VideoIds }

\* the urls given to parseVideoId, as new URL reads them; the string that
\* does not parse has no parts
VideoUrls ==
    [parses : {TRUE}, hostname : VideoHosts, pathname : VideoPaths,
     v : {Absent} \cup {Given(id) : id \in VideoIds}]
        \cup {[parses |-> FALSE, hostname |-> <<>>, pathname |-> <<>>, v |-> Absent]}

\* String.prototype.endsWith
EndsWith(chars, suffix) ==
    /\ Len(chars) >= Len(suffix)
    /\ SubSeq(chars, Len(chars) - Len(suffix) + 1, Len(chars)) = suffix

\* /^[a-zA-Z0-9_-]{11}$/.test
IsVideoId(chars) ==
    Len(chars) = 11 /\ \A k \in DOMAIN chars : chars[k] \in SafeChars

\* the pattern /\/(embed|shorts)\/([a-zA-Z0-9_-]{11})/ matches at a place
\* of the pathname with one of its two prefixes
MatchesAt(pathname, at, prefix) ==
    /\ at + Len(prefix) + 10 <= Len(pathname)
    /\ SubSeq(pathname, at, at + Len(prefix) - 1) = prefix
    /\ IsVideoId(SubSeq(pathname, at + Len(prefix), at + Len(prefix) + 10))

EmbedOrShorts == { <<"/", "e", "m", "b", "e", "d", "/">>, <<"/", "s", "h", "o", "r", "t", "s", "/">> }

\* pathname.match(...): the leftmost match, as the set of its second group
EmbedOrShortsMatch(pathname) ==
    LET places == { at \in DOMAIN pathname :
                      \E prefix \in EmbedOrShorts : MatchesAt(pathname, at, prefix) }
    IN IF places = {} THEN {}
       ELSE LET at == CHOOSE a \in places : \A b \in places : a <= b
                prefix == CHOOSE p \in EmbedOrShorts : MatchesAt(pathname, at, p)
            IN { SubSeq(pathname, at + Len(prefix), at + Len(prefix) + 10) }

Returns(id) == [threw |-> FALSE, id |-> id, message |-> ""]

Throws(message) == [threw |-> TRUE, id |-> <<>>, message |-> message]

\* the body of the try of parseVideoId (the pathname of a url that parses
\* starts with "/", which replace(/^\//, "") takes off)
TryParseVideoId(u) ==
    IF ~u.parses THEN Throws("Invalid URL")
    ELSE IF /\ EndsWith(u.hostname, <<"y", "o", "u", "t", "u", "b", "e", ".", "c", "o", "m">>)
            /\ u.pathname \in { <<"/", "w", "a", "t", "c", "h">>, <<"/", "e", "m", "b", "e", "d", "/">>,
                                <<"/", "s", "h", "o", "r", "t", "s", "/">> }
    THEN IF u.v.given /\ IsVideoId(u.v.path) THEN Returns(u.v.path)
         ELSE IF EmbedOrShortsMatch(u.pathname) # {}
         THEN Returns(CHOOSE id \in EmbedOrShortsMatch(u.pathname) : TRUE)
         ELSE Throws("Not a recognized YouTube video URL")
    ELSE IF u.hostname = <<"y", "o", "u", "t", "u", ".", "b", "e">>
            /\ IsVideoId(Tail(u.pathname))
    THEN Returns(Tail(u.pathname))
    ELSE Throws("Not a recognized YouTube video URL")

\* parseVideoId: whatever the try throws is replaced by one Error
parseVideoId(u) ==
    LET tried == TryParseVideoId(u)
    IN IF tried.threw THEN Throws("Invalid YouTube URL") ELSE tried

VideoInit ==
    /\ NoFetching
    /\ gen = NoGen
    /\ wire = Unused
    /\ conf = Unused
    /\ page = Unused
    /\ video \in [phase : {"given"}, url : VideoUrls]

ParseVideo ==
    /\ video.phase = "given"
    /\ video' = [phase |-> "parsed", url |-> video.url,
                 outcome |-> parseVideoId(video.url)]
    /\ UNCHANGED <<fetching, gen, wire, conf, page>>

VideoNext == ParseVideo

VideoSpec == VideoInit /\ [][VideoNext]_vars

\* the host is youtube.com or one of its subdomains
OnYoutube(hostname) ==
    \/ hostname = <<"y", "o", "u", "t", "u", "b", "e", ".", "c", "o", "m">>
    \/ EndsWith(hostname, <<".", "y", "o", "u", "t", "u", "b", "e", ".", "c", "o", "m">>)

\* a video id: 11 characters of [a-zA-Z0-9_-]
WellFormedId(id) ==
    /\ Len(id) = 11
    /\ \A k \in DOMAIN id : id[k] \in Letters \cup Digits \cup {"_", "-"}

\* the ids a url of a recognised form carries: watch?v=ID, embed/ID,
\* shorts/ID on youtube.com, ID on youtu.be
RecognisedIds(u) ==
    { id \in VideoIds :
        /\ u.parses
        /\ WellFormedId(id)
        /\ \/ /\ OnYoutube(u.hostname)
              /\ \/ u.pathname = <<"/", "w", "a", "t", "c", "h">> /\ u.v = Given(id)
                 \/ u.pathname = <<"/", "e", "m", "b", "e", "d", "/">> \o id
                 \/ u.pathname = <<"/", "s", "h", "o", "r", "t", "s", "/">> \o id
           \/ u.hostname = <<"y", "o", "u", "t", "u", ".", "b", "e">> /\ u.pathname = <<"/">> \o id }

\* C30 as claimed: the id is returned for every url of a recognised form,
\* and every other input throws an Error with the message
\* "Invalid YouTube URL"
C30_RecognisedFormsReturnId ==
    video.phase = "parsed" =>
        IF RecognisedIds(video.url) # {}
        THEN ~video.outcome.threw /\ video.outcome.id \in RecognisedIds(video.url)
        ELSE video.outcome = Throws("Invalid YouTube URL")

\* watch?v=ID on youtube.com and ID on youtu.be return the id, whatever is
\* thrown carries the message "Invalid YouTube URL", and whatever is
\* returned is 11 characters of the alphabet
C30_WatchAndShortLinks ==
    video.phase = "parsed" =>
        /\ (/\ video.url.parses
            /\ \/ /\ OnYoutube(video.url.hostname)
                  /\ video.url.pathname = <<"/", "w", "a", "t", "c", "h">>
                  /\ video.url.v = Given(GoodId)
               \/ /\ video.url.hostname = <<"y", "o", "u", "t", "u", ".", "b", "e">>
                  /\ video.url.pathname = <<"/">> \o GoodId)
              => video.outcome = Returns(GoodId)
        /\ video.outcome.threw => video.outcome = Throws("Invalid YouTube URL")
        /\ ~video.outcome.threw => WellFormedId(video.outcome.id)

====
